---------------------------- MODULE Spec2Model ----------------------------
(***************************************************************************)
(* ESG Buddy (src/src/App.jsx): the emission estimator, the row parsing    *)
(* and aggregation done by the screens, and the App component's row state  *)
(* with its spreadsheet store.                                             *)
(*                                                                         *)
(* Numbers.  A JavaScript number is held in thousandths (Milli): 0.05 is   *)
(* 50, 1.9 is 1900.  A product, quotient or sum is held as a reduced       *)
(* fraction until toFixed rounds it.  The arithmetic is exact; the         *)
(* last-bit error of IEEE doubles is not modelled, and every magnitude is  *)
(* far below the overflow threshold of a double.  Times are in seconds,    *)
(* and the local time zone is UTC.                                         *)
(*                                                                         *)
(* Strings are TLA+ strings read character by character with SubSeq.       *)
(* Category names are written without diacritics (Residuos, Governanca).   *)
(***************************************************************************)
EXTENDS Integers, Sequences, FiniteSets, TLC

VARIABLES
    form,       \* LogActionScreen: the form state
    est,        \* the last call of computeEmissionKg: its arguments and its result
    screen,     \* App: the screen shown
    rows,       \* App: the in-memory row list
    now,        \* Date.now() at the last render, in seconds
    cfg,        \* App: clientId and spreadsheetId
    email,      \* App: the signed-in user's email
    demo,       \* App: the demo flag
    busy,       \* ConnectScreen: a connection attempt is running
    gLoaded,    \* useGapi: the gapi script has loaded
    effect,     \* the effect on [demo] is due (demo changed in the last render)
    store,      \* the records of the "actions" sheet, in sheet order
    ops,        \* the asynchronous calls in flight (sign-in, read, append)
    issued,     \* how many asynchronous calls the run has started
    alert,      \* the alert dialog on screen, "" when there is none
    demoAdded   \* history: the rows addRow appended to the local demo state

estVars == <<form, est>>
appVars == <<cfg, email, demo, busy, gLoaded, effect, store, ops, issued, alert, demoAdded>>
vars == <<form, est, screen, rows, now, cfg, email, demo, busy, gLoaded, effect, store,
          ops, issued, alert, demoAdded>>

(***************************************************************************)
(* JavaScript values                                                       *)
(***************************************************************************)
JSNum(k) == [t |-> "num", n |-> k, s |-> ""]
JSNaN == [t |-> "nan", n |-> 0, s |-> ""]
JSStr(x) == [t |-> "str", n |-> 0, s |-> x]
JSUndef == [t |-> "undefined", n |-> 0, s |-> ""]
JSNull == [t |-> "null", n |-> 0, s |-> ""]
JSFunction == [t |-> "function", n |-> 0, s |-> ""]

\* typeof v
TypeOf(v) ==
    CASE v.t \in {"num", "nan"} -> "number"
      [] v.t = "str" -> "string"
      [] v.t = "null" -> "object"
      [] OTHER -> v.t

\* ToBoolean(v): what `v || d` and `c ? a : b` test
Truthy(v) ==
    CASE v.t = "num" -> v.n # 0
      [] v.t = "str" -> v.s # ""
      [] v.t = "function" -> TRUE
      [] OTHER -> FALSE

\* a || b
Or(a, b) == IF Truthy(a) THEN a ELSE b

\* a ?? b
Nullish(a, b) == IF a.t \in {"undefined", "null"} THEN b ELSE a

Char(s, i) == SubSeq(s, i, i)

Digits == {"0", "1", "2", "3", "4", "5", "6", "7", "8", "9"}

DigitVal(c) ==
    CASE c = "0" -> 0 [] c = "1" -> 1 [] c = "2" -> 2 [] c = "3" -> 3
      [] c = "4" -> 4 [] c = "5" -> 5 [] c = "6" -> 6 [] c = "7" -> 7
      [] c = "8" -> 8 [] c = "9" -> 9

DigitChar(d) ==
    CASE d = 0 -> "0" [] d = 1 -> "1" [] d = 2 -> "2" [] d = 3 -> "3"
      [] d = 4 -> "4" [] d = 5 -> "5" [] d = 6 -> "6" [] d = 7 -> "7"
      [] d = 8 -> "8" [] d = 9 -> "9"

IsDigits(s) == \A i \in 1..Len(s) : Char(s, i) \in Digits

RECURSIVE DigitsVal(_)
DigitsVal(s) ==
    IF Len(s) = 0 THEN 0
    ELSE DigitsVal(SubSeq(s, 1, Len(s) - 1)) * 10 + DigitVal(Char(s, Len(s)))

\* The decimal digits of a natural number
RECURSIVE NatToStr(_)
NatToStr(k) ==
    IF k < 10 THEN DigitChar(k) ELSE NatToStr(k \div 10) \o DigitChar(k % 10)

\* The unit of the model's numbers: 10^3, the three decimals of toFixed(3)
Milli == 1000

\* String.prototype.trim, as StringToNumber applies it (spaces only)
RECURSIVE TrimStart(_)
TrimStart(s) ==
    IF Len(s) > 0 /\ Char(s, 1) = " " THEN TrimStart(SubSeq(s, 2, Len(s))) ELSE s

RECURSIVE TrimEnd(_)
TrimEnd(s) ==
    IF Len(s) > 0 /\ Char(s, Len(s)) = " " THEN TrimEnd(SubSeq(s, 1, Len(s) - 1)) ELSE s

\* The position of the first "." of s, or 0
PointAt(s) ==
    IF \E i \in 1..Len(s) : Char(s, i) = "."
    THEN CHOOSE i \in 1..Len(s) : Char(s, i) = "." /\ \A j \in 1..(i - 1) : Char(s, j) # "."
    ELSE 0

\* The first three decimals of a fraction's digits, in thousandths
FracMilli(d) ==
    LET p == SubSeq(d \o "000", 1, 3) IN DigitsVal(p)

\* An unsigned decimal literal (digits, digits. , .digits, digits.digits), in
\* thousandths, or NaN.  Exponents, hexadecimal literals and "Infinity" are
\* outside the texts of the model.
UnsignedLiteral(s) ==
    LET p == PointAt(s)
        ip == IF p = 0 THEN s ELSE SubSeq(s, 1, p - 1)
        fp == IF p = 0 THEN "" ELSE SubSeq(s, p + 1, Len(s))
    IN  IF IsDigits(ip) /\ IsDigits(fp) /\ Len(ip) + Len(fp) > 0
        THEN JSNum(DigitsVal(ip) * Milli + FracMilli(fp))
        ELSE JSNaN

\* StringToNumber
StringToNumber(s) ==
    LET u == TrimEnd(TrimStart(s)) IN
    IF u = "" THEN JSNum(0)
    ELSE IF Char(u, 1) = "-"
         THEN LET m == UnsignedLiteral(SubSeq(u, 2, Len(u)))
              IN  IF m.t = "num" THEN JSNum(0 - m.n) ELSE JSNaN
         ELSE IF Char(u, 1) = "+" THEN UnsignedLiteral(SubSeq(u, 2, Len(u)))
         ELSE UnsignedLiteral(u)

\* Number(v)
Number(v) ==
    CASE v.t \in {"num", "nan"} -> v
      [] v.t = "str" -> StringToNumber(v.s)
      [] v.t = "null" -> JSNum(0)
      [] OTHER -> JSNaN

Abs(k) == IF k < 0 THEN 0 - k ELSE k

RECURSIVE Gcd(_, _)
Gcd(a, b) == IF b = 0 THEN a ELSE Gcd(b, a % b)

\* The fraction num/den in lowest terms (den > 0)
Ratio(num, den) ==
    LET g == Gcd(Abs(num), den)
    IN  [nan |-> FALSE, num |-> num \div g, den |-> den \div g]

NotANumber == [nan |-> TRUE, num |-> 0, den |-> 1]

\* An intermediate double of an expression, held exactly as a fraction
Real(v) ==
    LET a == Number(v) IN
    IF a.t = "num" THEN Ratio(a.n, Milli) ELSE NotANumber

\* x * y
Times(x, y) ==
    IF x.nan \/ y.nan THEN NotANumber
    ELSE LET g == Gcd(Abs(x.num), y.den)
             h == Gcd(Abs(y.num), x.den)
         IN  Ratio((x.num \div g) * (y.num \div h), (x.den \div h) * (y.den \div g))

\* x / y; a division by zero gives no finite number
Over(x, y) ==
    IF x.nan \/ y.nan \/ y.num = 0 THEN NotANumber
    ELSE IF y.num < 0
         THEN Times(x, [nan |-> FALSE, num |-> 0 - y.den, den |-> 0 - y.num])
         ELSE Times(x, [nan |-> FALSE, num |-> y.den, den |-> y.num])

\* a + b on numbers
Plus(a, b) ==
    IF a.t = "num" /\ b.t = "num" THEN JSNum(a.n + b.n) ELSE JSNaN

\* a - b on numbers
Minus(a, b) ==
    IF a.t = "num" /\ b.t = "num" THEN JSNum(a.n - b.n) ELSE JSNaN

RECURSIVE Pow10(_)
Pow10(d) == IF d = 0 THEN 1 ELSE 10 * Pow10(d - 1)

\* Number.prototype.toFixed(d): the decimal text with d decimals of the nearest
\* multiple of 10^-d, the larger magnitude on a tie
ToFixed(x, d) ==
    IF x.nan THEN "NaN"
    ELSE LET whole == Abs(x.num) \div x.den
             rest == (Abs(x.num) % x.den) * Pow10(d)
             m == whole * Pow10(d) + (rest \div x.den)
                    + (IF 2 * (rest % x.den) >= x.den THEN 1 ELSE 0)
             frac == NatToStr(m % Pow10(d))
             pad == SubSeq("000", 1, d - Len(frac)) \o frac
         IN  (IF x.num < 0 THEN "-" ELSE "") \o NatToStr(m \div Pow10(d)) \o "." \o pad

(***************************************************************************)
(* The emission estimator                                                  *)
(***************************************************************************)
Categorias == <<"Energia", "Residuos", "Transporte", "Social", "Governanca">>

\* Property names every object literal inherits from Object.prototype; their
\* values are functions (for __proto__, an object): never undefined or null
ObjectPrototypeKeys ==
    {"constructor", "toString", "toLocaleString", "valueOf", "hasOwnProperty",
     "isPrototypeOf", "propertyIsEnumerable", "__proto__"}

\* The property key a value is converted to
PropertyKey(v) ==
    CASE v.t = "str" -> v.s
      [] v.t = "undefined" -> "undefined"
      [] v.t = "null" -> "null"
      [] v.t = "nan" -> "NaN"
      [] OTHER -> "?"

\* DEFAULT_EMISSION_FACTORS[categoria]
DEFAULT_EMISSION_FACTORS(categoria) ==
    LET k == PropertyKey(categoria) IN
    CASE k = "Energia" -> JSNum(50)
      [] k = "Residuos" -> JSNum(1900)
      [] k = "Transporte" -> JSNum(120)
      [] k = "Social" -> JSNum(0)
      [] k = "Governanca" -> JSNum(0)
      [] k \in ObjectPrototypeKeys -> JSFunction
      [] OTHER -> JSUndef

computeEmissionKg(categoria, quantidade, fatorCustom) ==
    LET f == IF TypeOf(fatorCustom) = "number" THEN fatorCustom
             ELSE Nullish(DEFAULT_EMISSION_FACTORS(categoria), JSNum(0))
        q == Or(Number(quantidade), JSNum(0))
    IN  StringToNumber(ToFixed(Times(Real(q), Real(f)), 3))

\* a === b on primitive values
StrictEq(a, b) == a.t # "nan" /\ a = b

(***************************************************************************)
(* LogActionScreen: the form and its emission preview                      *)
(***************************************************************************)
\* useState({timestamp: new Date().toISOString(), userEmail: defaultUser || "",
\*           categoria: "Energia", acao: "", quantidade: 1, unidade: "kWh", ...})
InitialForm(defaultUser, isoNow) ==
    [timestamp |-> JSStr(isoNow), userEmail |-> JSStr(defaultUser),
     categoria |-> JSStr("Energia"), acao |-> JSStr(""),
     quantidade |-> JSNum(1 * Milli), unidade |-> JSStr("kWh"),
     fator_emissao |-> JSStr(""), notas |-> JSStr("")]

\* mapUnit[f.categoria]
mapUnit(categoria) ==
    CASE categoria = "Energia" -> "kWh"
      [] categoria = "Residuos" -> "kg"
      [] categoria = "Transporte" -> "km"
      [] OTHER -> "h"

\* Texts the quantity and factor inputs may hold
QuantidadeTexts == {"", "2", "1.25", "abc"}
FatorTexts == {"", "0.125", "abc", "-0.05"}

NoCall == [by |-> "none", categoria |-> JSUndef, quantidade |-> JSUndef,
           fatorCustom |-> JSUndef, result |-> JSUndef]

\* A call of computeEmissionKg, recorded with its arguments
Call(by, categoria, quantidade, fatorCustom) ==
    [by |-> by, categoria |-> categoria, quantidade |-> quantidade,
     fatorCustom |-> fatorCustom,
     result |-> computeEmissionKg(categoria, quantidade, fatorCustom)]

\* const emissao_kg = computeEmissionKg({...}) of a render of the form
LogActionPreview(f) ==
    Call("form", f.categoria, f.quantidade,
         IF StrictEq(f.fator_emissao, JSStr("")) THEN JSUndef ELSE Number(f.fator_emissao))

\* The select's onChange, then the effect on [form.categoria] that sets the unit
SetCategoria(c) ==
    /\ form' = [form EXCEPT !.categoria = JSStr(c), !.unidade = JSStr(mapUnit(c))]
    /\ est' = LogActionPreview(form')
    /\ UNCHANGED <<screen, rows, now>>
    /\ UNCHANGED appVars

SetQuantidade(txt) ==
    /\ form' = [form EXCEPT !.quantidade = JSStr(txt)]
    /\ est' = LogActionPreview(form')
    /\ UNCHANGED <<screen, rows, now>>
    /\ UNCHANGED appVars

SetFatorEmissao(txt) ==
    /\ form' = [form EXCEPT !.fator_emissao = JSStr(txt)]
    /\ est' = LogActionPreview(form')
    /\ UNCHANGED <<screen, rows, now>>
    /\ UNCHANGED appVars

\* Arguments of a direct call of the estimator
CategoriaInputs ==
    {JSStr(Categorias[i]) : i \in 1..Len(Categorias)}
        \cup {JSStr("Outra"), JSStr("constructor"), JSUndef}
QuantidadeInputs ==
    {JSNum(10 * Milli), JSNum(5 * Milli), JSNum(1250), JSNum(0 - 2500), JSStr("abc")}
FatorInputs == {JSUndef, JSNum(200), JSNum(125), JSNum(0 - 50)}

Estimate(c, q, f) ==
    /\ est' = Call("call", c, q, f)
    /\ UNCHANGED <<form, screen, rows, now>>
    /\ UNCHANGED appVars

(***************************************************************************)
(* Rows and the screens' parsing and aggregation                           *)
(***************************************************************************)
\* r[i] of a row (an array of cells): undefined past its end
Cell(r, i) == IF i < Len(r) THEN r[i + 1] ELSE JSUndef

\* arr.reduce((s, x) => s + x.emissao_kg, 0)
RECURSIVE SumEmissao(_)
SumEmissao(arr) ==
    IF Len(arr) = 0 THEN JSNum(0)
    ELSE Plus(SumEmissao(SubSeq(arr, 1, Len(arr) - 1)), arr[Len(arr)].emissao_kg)

\* A Map, as its entries in insertion order
MapHas(m, k) == \E i \in 1..Len(m) : m[i].k = k
MapIndex(m, k) == CHOOSE i \in 1..Len(m) : m[i].k = k
\* A Map whose set moves an existing key to the end (delete, then insert)
MapSetMovesKey(m, k, v) ==
    Append(SelectSeq(m, LAMBDA e : e.k # k), [k |-> k, v |-> v])

\* m.set(k, v): an existing key keeps its place
MapSet(m, k, v) ==
    IF MapHas(m, k) THEN [m EXCEPT ![MapIndex(m, k)].v = v]
    ELSE Append(m, [k |-> k, v |-> v])
\* m.get(k) || []
MapGetArray(m, k) == IF MapHas(m, k) THEN m[MapIndex(m, k)].v ELSE <<>>
\* m.get(k) || 0
MapGetNumber(m, k) == IF MapHas(m, k) THEN Or(m[MapIndex(m, k)].v, JSNum(0)) ELSE JSNum(0)

\* A grouping that forgets a key's earlier items: m.set(k, [item])
groupByLast(arr, field) ==
    LET RECURSIVE upTo(_)
        upTo(n) ==
            IF n = 0 THEN <<>>
            ELSE MapSet(upTo(n - 1), arr[n][field], <<arr[n]>>)
    IN  upTo(Len(arr))

\* groupBy(arr, x => x[field])
groupBy(arr, field) ==
    LET RECURSIVE upTo(_)
        upTo(n) ==
            IF n = 0 THEN <<>>
            ELSE LET m == upTo(n - 1)
                     k == arr[n][field]
                 IN  MapSet(m, k, Append(MapGetArray(m, k), arr[n]))
    IN  upTo(Len(arr))

\* A Map of running sums, keys[n] being the key of arr[n]:
\* for (const x of arr) m.set(key, (m.get(key)||0) + x.emissao_kg)
sumBy(arr, keys) ==
    LET RECURSIVE upTo(_)
        upTo(n) ==
            IF n = 0 THEN <<>>
            ELSE LET m == upTo(n - 1)
                 IN  MapSet(m, keys[n], Plus(MapGetNumber(m, keys[n]), arr[n].emissao_kg))
    IN  upTo(Len(arr))

(***************************************************************************)
(* Dates: a Date is its UTC calendar fields and its time value in seconds  *)
(* (milliseconds are read and dropped).  The local time zone is UTC.       *)
(***************************************************************************)
InvalidDate == [valid |-> FALSE, y |-> 0, mo |-> 0, d |-> 0, time |-> 0]

IsLeap(y) == (y % 4 = 0 /\ y % 100 # 0) \/ y % 400 = 0

DaysInMonth(y, mo) ==
    CASE mo \in {4, 6, 9, 11} -> 30
      [] mo = 2 -> IF IsLeap(y) THEN 29 ELSE 28
      [] OTHER -> 31

\* Days from 1970-01-01 to the civil date y-mo-d
DaysFromCivil(y, mo, d) ==
    LET yy == IF mo <= 2 THEN y - 1 ELSE y
        era == yy \div 400
        yoe == yy - era * 400
        mp == IF mo > 2 THEN mo - 3 ELSE mo + 9
        doy == (153 * mp + 2) \div 5 + d - 1
        doe == yoe * 365 + yoe \div 4 - yoe \div 100 + doy
    IN  era * 146097 + doe - 719468

\* Date.parse of the ISO forms YYYY-MM-DD, YYYY-MM-DDTHH:mm and
\* YYYY-MM-DDTHH:mm:ss.sssZ; any other text is an invalid date
DateParse(s) ==
    LET n == Len(s)
        dateOk == /\ n \in {10, 16, 24}
                  /\ IsDigits(SubSeq(s, 1, 4)) /\ Char(s, 5) = "-"
                  /\ IsDigits(SubSeq(s, 6, 7)) /\ Char(s, 8) = "-"
                  /\ IsDigits(SubSeq(s, 9, 10))
        timeOk == n = 10 \/ (/\ Char(s, 11) = "T" /\ IsDigits(SubSeq(s, 12, 13))
                             /\ Char(s, 14) = ":" /\ IsDigits(SubSeq(s, 15, 16)))
        secOk == n < 24 \/ (/\ Char(s, 17) = ":" /\ IsDigits(SubSeq(s, 18, 19))
                            /\ Char(s, 20) = "." /\ IsDigits(SubSeq(s, 21, 23))
                            /\ Char(s, 24) = "Z")
        y == DigitsVal(SubSeq(s, 1, 4))
        mo == DigitsVal(SubSeq(s, 6, 7))
        d == DigitsVal(SubSeq(s, 9, 10))
        hh == IF n = 10 THEN 0 ELSE DigitsVal(SubSeq(s, 12, 13))
        mi == IF n = 10 THEN 0 ELSE DigitsVal(SubSeq(s, 15, 16))
        ss == IF n < 24 THEN 0 ELSE DigitsVal(SubSeq(s, 18, 19))
    IN  IF dateOk /\ timeOk /\ secOk
           /\ mo \in 1..12 /\ d \in 1..DaysInMonth(y, mo)
           /\ hh \in 0..23 /\ mi \in 0..59 /\ ss \in 0..59
        THEN [valid |-> TRUE, y |-> y, mo |-> mo, d |-> d,
              time |-> DaysFromCivil(y, mo, d) * 86400 + hh * 3600 + mi * 60 + ss]
        ELSE InvalidDate

\* new Date(v) of a cell: the rows of the model hold texts or nothing there
NewDate(v) == IF v.t = "str" THEN DateParse(v.s) ELSE InvalidDate

\* String(n).padStart(2, "0")
PadStart2(txt) == IF Len(txt) < 2 THEN "0" \o txt ELSE txt

\* `${date.getFullYear()}-${String(date.getMonth()+1).padStart(2,"0")}`
MonthKey(date) ==
    IF date.valid THEN NatToStr(date.y) \o "-" \o PadStart2(NatToStr(date.mo))
    ELSE "NaN-NaN"

\* 7*24*3600*1000 ms, in seconds
WindowSeconds == 7 * 24 * 3600

\* Date.now() - new Date(x.timestamp).getTime() <= 7*24*3600*1000
InLast7(x, t) ==
    LET date == NewDate(x.timestamp)
    IN  date.valid /\ t - date.time <= WindowSeconds

(***************************************************************************)
(* DashboardScreen                                                         *)
(***************************************************************************)
DashboardParsed(r) ==
    [timestamp |-> Cell(r, 0),
     userEmail |-> Cell(r, 1),
     categoria |-> Cell(r, 2),
     acao |-> Cell(r, 3),
     quantidade |-> Or(Number(Cell(r, 4)), JSNum(0)),
     unidade |-> Cell(r, 5),
     fator |-> IF StrictEq(Cell(r, 6), JSStr("")) THEN JSUndef ELSE Number(Cell(r, 6)),
     emissao_kg |-> Or(Number(Cell(r, 7)), JSNum(0)),
     notas |-> Or(Cell(r, 8), JSStr(""))]

DashboardByCat(parsed) ==
    LET g == groupBy(parsed, "categoria")
    IN  [i \in 1..Len(g) |-> [categoria |-> g[i].k, emissao |-> SumEmissao(g[i].v)]]

DashboardLast7(parsed, t) ==
    SumEmissao(SelectSeq(parsed, LAMBDA x : InLast7(x, t)))

DashboardScreen(rs, t) ==
    LET parsed == [i \in 1..Len(rs) |-> DashboardParsed(rs[i])]
    IN  [parsed |-> parsed,
         total |-> SumEmissao([i \in 1..Len(parsed) |->
                       [emissao_kg |-> Or(parsed[i].emissao_kg, JSNum(0))]]),
         byCat |-> DashboardByCat(parsed),
         last7 |-> DashboardLast7(parsed, t)]

(***************************************************************************)
(* InsightsScreen                                                          *)
(***************************************************************************)
InsightsParsed(r) ==
    [date |-> NewDate(Cell(r, 0)),
     categoria |-> Cell(r, 2),
     emissao_kg |-> Or(Number(Cell(r, 7)), JSNum(0))]

byMonth(parsed) ==
    LET m == sumBy(parsed, [i \in 1..Len(parsed) |-> MonthKey(parsed[i].date)])
    IN  [i \in 1..Len(m) |-> [month |-> m[i].k, total |-> m[i].v]]

\* Array.from(m.values()).reduce((s,v)=>s+v,0) || 1
InsightsTotal(m) ==
    Or(SumEmissao([i \in 1..Len(m) |-> [emissao_kg |-> m[i].v]]), JSNum(1 * Milli))

\* +(100*val/total).toFixed(1)
Percent(val, total) ==
    StringToNumber(ToFixed(Over(Times(Real(JSNum(100 * Milli)), Real(val)), Real(total)), 1))

byCat(parsed) ==
    LET m == sumBy(parsed, [i \in 1..Len(parsed) |-> parsed[i].categoria])
        total == InsightsTotal(m)
    IN  [i \in 1..Len(m) |->
            [categoria |-> m[i].k, val |-> m[i].v, pct |-> Percent(m[i].v, total)]]

InsightsScreen(rs) ==
    LET parsed == [i \in 1..Len(rs) |-> InsightsParsed(rs[i])]
    IN  [parsed |-> parsed, byMonth |-> byMonth(parsed), byCat |-> byCat(parsed)]

(***************************************************************************)
(* ChallengesScreen                                                        *)
(***************************************************************************)
ChallengesParsed(r) ==
    [email |-> Cell(r, 1), emissao_kg |-> Or(Number(Cell(r, 7)), JSNum(0))]

\* (a, b) => b.total - a.total
CompareTotals(a, b) == Minus(b.total, a.total)

\* A sort that is not stable: an entry goes before the entries it ties with
RECURSIVE SortByTotalUnstable(_)
SortByTotalUnstable(arr) ==
    IF Len(arr) = 0 THEN <<>>
    ELSE LET done == SortByTotalUnstable(SubSeq(arr, 1, Len(arr) - 1))
             x == arr[Len(arr)]
             keep == {i \in 1..Len(done) : CompareTotals(done[i], x).n >= 0}
             at == IF keep = {} THEN Len(done) + 1
                   ELSE CHOOSE i \in keep : \A j \in keep : i <= j
         IN  SubSeq(done, 1, at - 1) \o <<x>> \o SubSeq(done, at, Len(done))

\* Array.prototype.sort with CompareTotals: a stable sort (an insertion sort here)
RECURSIVE SortByTotal(_)
SortByTotal(arr) ==
    IF Len(arr) = 0 THEN <<>>
    ELSE LET done == SortByTotal(SubSeq(arr, 1, Len(arr) - 1))
             x == arr[Len(arr)]
             \* x goes after every element that does not compare after it
             keep == {i \in 1..Len(done) : CompareTotals(done[i], x).n > 0}
             at == IF keep = {} THEN Len(done) + 1
                   ELSE CHOOSE i \in keep : \A j \in keep : i <= j
         IN  SubSeq(done, 1, at - 1) \o <<x>> \o SubSeq(done, at, Len(done))

byUser(parsed) ==
    LET m == sumBy(parsed, [i \in 1..Len(parsed) |-> parsed[i].email])
    IN  SortByTotal([i \in 1..Len(m) |-> [email |-> m[i].k, total |-> m[i].v]])

ChallengesScreen(rs) ==
    LET parsed == [i \in 1..Len(rs) |-> ChallengesParsed(rs[i])]
    IN  [parsed |-> parsed, byUser |-> byUser(parsed)]

(***************************************************************************)
(* The rows the screens are given                                          *)
(***************************************************************************)
\* The most rows the row list holds
MaxRows == 3

Row(ts, userEmail, cat, qty, fator, emis, notas) ==
    <<JSStr(ts), JSStr(userEmail), JSStr(cat), JSStr("acao"), qty, JSStr("un"), fator, emis, notas>>

\* Records as the sheet returns them (texts, a record cut after its last filled
\* cell) and as the form submits them (numbers in the quantity and emission cells)
RawRows ==
    {Row("2024-03-10", "ana@x", "Energia", JSStr("2"), JSStr(""), JSStr("2"), JSStr("")),
     Row("2024-02-01", "bia@x", "Residuos", JSStr("1"), JSStr(""), JSStr("-2"), JSStr("n")),
     Row("2024-03-20T10:30:00.000Z", "ana@x", "Residuos", JSStr("abc"), JSStr("abc"), JSStr("2"), JSStr("")),
     Row("2024-03-05", "bia@x", "Energia", JSStr("1.5"), JSStr("0.2"), JSStr("3.5"), JSStr("")),
     Row("abc", "", "", JSStr(""), JSStr(""), JSStr("x"), JSStr("")),
     <<JSStr("2024-03-11"), JSStr("bia@x")>>,
     Row("2024-03-11T10:30:00.000Z", "ana@x", "Transporte", JSNum(1500), JSStr(""), JSNum(180), JSStr("")),
     Row("2024-01-15", "bia@x", "Social", JSStr("4"), JSStr(""), JSStr("2"), JSStr(""))}

\* Date.now() at the renders of the model
ClockStart == DateParse("2024-03-12").time
Clock == {ClockStart, DateParse("2024-03-15T08:00").time}

NavItems == {"home", "log", "insights", "challenges", "settings"}

\* Nav: onNav(it.id), then the render of the screen
Nav(id) ==
    /\ screen # "connect" /\ screen # id
    /\ ~effect /\ alert = ""
    /\ screen' = id
    /\ now' \in {t \in Clock : t >= now}
    /\ UNCHANGED <<form, est, rows>>
    /\ UNCHANGED appVars

\* A record is added to the sheet and to the row list, as addRow leaves them
\* (sheetsAppend, then setRows(prev => [...prev, row])), then the render
RowArrives(r) ==
    /\ screen # "connect"
    /\ ~effect /\ alert = ""
    /\ Len(rows) < MaxRows
    /\ store' = Append(store, r)
    /\ rows' = Append(rows, r)
    /\ UNCHANGED <<form, est, screen, now, cfg, email, demo, busy, gLoaded, effect, ops,
                   issued, alert, demoAdded>>

(***************************************************************************)
(* seedDemoRows                                                            *)
(***************************************************************************)
\* The civil date of a day count from 1970-01-01
CivilFromDays(days) ==
    LET z == days + 719468
        era == z \div 146097
        doe == z - era * 146097
        yoe == (doe - doe \div 1460 + doe \div 36524 - doe \div 146096) \div 365
        doy == doe - (365 * yoe + yoe \div 4 - yoe \div 100)
        mp == (5 * doy + 2) \div 153
        d == doy - (153 * mp + 2) \div 5 + 1
        mo == IF mp < 10 THEN mp + 3 ELSE mp - 9
    IN  [y |-> yoe + era * 400 + (IF mo <= 2 THEN 1 ELSE 0), mo |-> mo, d |-> d]

\* Date.prototype.toISOString of a time value in seconds
ToISOString(time) ==
    LET c == CivilFromDays(time \div 86400)
        sec == time % 86400
    IN  NatToStr(c.y) \o "-" \o PadStart2(NatToStr(c.mo)) \o "-" \o PadStart2(NatToStr(c.d))
          \o "T" \o PadStart2(NatToStr(sec \div 3600)) \o ":"
          \o PadStart2(NatToStr((sec % 3600) \div 60)) \o ":"
          \o PadStart2(NatToStr(sec % 60)) \o ".000Z"

\* The rows seedDemoRows makes
SeedCount == 40

\* Math.round of a non-negative number: the nearest integer, a half going up
MathRound(v) == JSNum(((v.n + Milli \div 2) \div Milli) * Milli)

\* The factor cycle started one place later
SeedFactorShifted(i) ==
    CASE i % 4 = 0 -> JSNum(90)
      [] i % 4 = 1 -> JSNum(120)
      [] i % 4 = 2 -> JSNum(50)
      [] OTHER -> JSNull

\* [null, 0.09, 0.12, 0.05][i % 4]
SeedFactor(i) ==
    CASE i % 4 = 0 -> JSNull
      [] i % 4 = 1 -> JSNum(90)
      [] i % 4 = 2 -> JSNum(120)
      [] OTHER -> JSNum(50)

SeedAcao(categoria) ==
    CASE categoria = "Energia" -> "Reduziu ar-condicionado"
      [] categoria = "Residuos" -> "Reciclou papel"
      [] categoria = "Transporte" -> "Carona solidaria"
      [] categoria = "Social" -> "Voluntariado"
      [] OTHER -> "Treinou LGPD"

\* The row of index i, drawn being the value of Math.random() in thousandths
SeedRow(i, t, drawn) ==
    LET categoria == Categorias[(i % Len(Categorias)) + 1]
        quantidade == MathRound(JSNum(1 * Milli + drawn * 20))
        fator_emissao == SeedFactor(i)
        emissao_kg == computeEmissionKg(JSStr(categoria), quantidade,
                                        Nullish(fator_emissao, JSUndef))
    IN  <<JSStr(ToISOString(t - i * 36 * 3600)),
          JSStr("demo@empresa.com"),
          JSStr(categoria),
          JSStr(SeedAcao(categoria)),
          quantidade,
          JSStr(mapUnit(categoria)),
          Nullish(fator_emissao, JSStr("")),
          emissao_kg,
          JSStr("")>>

\* seedDemoRows() at time t, run[i] being the i-th value of Math.random()
seedDemoRows(t, run) == [k \in 1..SeedCount |-> SeedRow(k - 1, t, run[k])]

\* Runs of Math.random(), each value in thousandths of [0, 1)
RandomRuns ==
    {[k \in 1..SeedCount |-> 999],
     [k \in 1..SeedCount |-> (k * 137) % Milli]}

(***************************************************************************)
(* The spreadsheet store and the header row                                *)
(***************************************************************************)
UpperCase == "ABCDEFGHIJKLMNOPQRSTUVWXYZ"
LowerCase == "abcdefghijklmnopqrstuvwxyz"

LowerChar(c) ==
    IF \E i \in 1..Len(UpperCase) : Char(UpperCase, i) = c
    THEN Char(LowerCase, CHOOSE i \in 1..Len(UpperCase) : Char(UpperCase, i) = c)
    ELSE c

\* A toLowerCase that leaves capitals as they are
toLowerCaseKeepsCapitals(txt) == txt

\* String.prototype.toLowerCase
RECURSIVE toLowerCase(_)
toLowerCase(txt) ==
    IF Len(txt) = 0 THEN ""
    ELSE toLowerCase(SubSeq(txt, 1, Len(txt) - 1)) \o LowerChar(Char(txt, Len(txt)))

\* String.prototype.includes
includes(txt, sub) ==
    \E i \in 1..(Len(txt) - Len(sub) + 1) : SubSeq(txt, i, i + Len(sub) - 1) = sub

\* all[0]?.[0]?.toLowerCase().includes("timestamp") ? all.slice(1) : all
\* threw: the first cell is neither a text nor absent, and has no toLowerCase
headerless(all) ==
    LET first == IF Len(all) = 0 THEN JSUndef ELSE Cell(all[1], 0)
    IN  IF first.t \in {"undefined", "null"} THEN [threw |-> FALSE, rows |-> all]
        ELSE IF first.t # "str" THEN [threw |-> TRUE, rows |-> <<>>]
        ELSE IF includes(toLowerCase(first.s), "timestamp")
             THEN [threw |-> FALSE, rows |-> SubSeq(all, 2, Len(all))]
             ELSE [threw |-> FALSE, rows |-> all]

\* sheetsReadAll: res.result.values || []
sheetsReadAll(sheet) == sheet

\* sheetsAppend: INSERT_ROWS after the last record
sheetsAppend(sheet, newRows) == sheet \o newRows

HeaderRow ==
    <<JSStr("timestamp"), JSStr("userEmail"), JSStr("categoria"), JSStr("acao"),
      JSStr("quantidade"), JSStr("unidade"), JSStr("fator_emissao"),
      JSStr("emissao_kg"), JSStr("notas")>>
TitledHeaderRow == <<JSStr("Data (Timestamp)"), JSStr("Email")>>
SheetRow1 ==
    Row("2024-03-10", "ana@x", "Energia", JSStr("2"), JSStr(""), JSStr("0.1"), JSStr(""))
SheetRow2 == <<JSStr("2024-03-11"), JSStr("bia@x")>>

\* The sheet as its owner left it
InitialStores ==
    {<<>>, <<HeaderRow, SheetRow1, SheetRow2>>, <<SheetRow2, SheetRow1>>,
     <<TitledHeaderRow, SheetRow1>>, <<<<>>, SheetRow1>>}

(***************************************************************************)
(* App: the handlers, each asynchronous call in its steps                  *)
(***************************************************************************)
\* The most asynchronous calls a run starts, and the most rows added in demo mode
MaxOps == 2
MaxDemoAdds == 1

\* A call in flight: sent (the service has not acted yet) or back (its answer
\* is on the way: ok or an error, for a read with the records it returned)
Op(id, kind, sid, row) ==
    [id |-> id, kind |-> kind, stage |-> "sent", ok |-> TRUE, sid |-> sid,
     row |-> row, values |-> <<>>]

\* useGapi: el.onload = () => setLoaded(true)
GapiLoaded ==
    /\ screen = "connect" /\ alert = ""
    /\ ~gLoaded
    /\ gLoaded' = TRUE
    /\ UNCHANGED <<form, est, screen, rows, now, cfg, email, demo, busy, effect, store,
                   ops, issued, alert, demoAdded>>

\* What the user types into the CLIENT_ID and Spreadsheet ID inputs
ClientIds == {"cid"}
SpreadsheetIds == {"sheet"}

\* setCfg(v => ({...v, [field]: e.target.value})) of ConnectScreen and SettingsScreen
SetCfg(field, value) ==
    /\ screen \in {"connect", "settings"}
    /\ ~effect /\ alert = ""
    /\ cfg[field] # value
    /\ cfg' = [cfg EXCEPT ![field] = value]
    /\ UNCHANGED <<form, est, screen, rows, now, email, demo, busy, gLoaded, effect, store,
                   ops, issued, alert, demoAdded>>

\* tryConnect before the gapi script has loaded: throws, alert, finally
TryConnectNotLoaded ==
    /\ screen = "connect" /\ ~effect /\ alert = ""
    /\ ~busy /\ cfg.clientId # ""
    /\ ~gLoaded
    /\ alert' = "gapi-loading"
    /\ UNCHANGED <<form, est, screen, rows, now, cfg, email, demo, busy, gLoaded, effect,
                   store, ops, issued, demoAdded>>

\* tryConnect: setBusy(true), then the awaits of gapiLoad, gapiInit, gapiSignIn;
\* onConnect keeps the cfg of the render the click was made in
TryConnect ==
    /\ screen = "connect" /\ ~effect /\ alert = ""
    /\ ~busy /\ cfg.clientId # ""
    /\ gLoaded
    /\ issued < MaxOps
    /\ busy' = TRUE
    /\ ops' = ops \cup {Op(issued, "signin", cfg.spreadsheetId, <<>>)}
    /\ issued' = issued + 1
    /\ UNCHANGED <<form, est, screen, rows, now, cfg, email, demo, gLoaded, effect, store,
                   alert, demoAdded>>

\* window.alert blocks the page until the user dismisses the dialog
Dismiss ==
    /\ alert # ""
    /\ alert' = ""
    /\ UNCHANGED <<form, est, screen, rows, now, cfg, email, demo, busy, gLoaded, effect,
                   store, ops, issued, demoAdded>>

\* An await of tryConnect rejects: alert(e.message), setBusy(false)
SignInFails(o) ==
    /\ o \in ops /\ o.kind = "signin"
    /\ ~effect /\ alert = ""
    /\ ops' = ops \ {o}
    /\ busy' = FALSE
    /\ alert' = "connect-error"
    /\ UNCHANGED <<form, est, screen, rows, now, cfg, email, demo, gLoaded, effect, store,
                   issued, demoAdded>>

\* gapiSignIn resolves: onConnect({email}) up to its await of sheetsReadAll,
\* then setBusy(false)
SignInDone(o) ==
    /\ o \in ops /\ o.kind = "signin"
    /\ ~effect /\ alert = ""
    /\ email' = "ana@x"
    /\ demo' = FALSE
    /\ effect' = demo
    /\ screen' = "home"
    /\ now' \in {t \in Clock : t >= now}
    /\ busy' = FALSE
    /\ ops' = IF o.sid # "" THEN (ops \ {o}) \cup {Op(o.id, "connect", o.sid, <<>>)}
              ELSE ops \ {o}
    /\ UNCHANGED <<form, est, rows, cfg, gLoaded, store, issued, alert, demoAdded>>

\* onConnect after its await: setRows(headerless), or the alert of the catch
ConnectReadDone(o) ==
    /\ o \in ops /\ o.kind = "connect" /\ o.stage = "back"
    /\ ~effect /\ alert = ""
    /\ ops' = ops \ {o}
    /\ LET h == headerless(o.values) IN
       IF o.ok /\ ~h.threw
       THEN rows' = h.rows /\ UNCHANGED alert
       ELSE alert' = "read-failed" /\ UNCHANGED rows
    /\ UNCHANGED <<form, est, screen, now, cfg, email, demo, busy, gLoaded, effect, store,
                   issued, demoAdded>>

\* onDemo
OnDemo ==
    /\ screen = "connect" /\ ~effect /\ alert = ""
    /\ demo' = TRUE
    /\ effect' = ~demo
    /\ screen' = "home"
    /\ now' \in {t \in Clock : t >= now}
    /\ UNCHANGED <<form, est, rows, cfg, email, busy, gLoaded, store, ops, issued, alert,
                   demoAdded>>

\* useEffect(() => { if (demo && rows.length===0) setRows(seedDemoRows()) }, [demo])
SeedEffect(run) ==
    /\ effect
    /\ effect' = FALSE
    /\ rows' = IF demo /\ Len(rows) = 0 THEN seedDemoRows(now, run) ELSE rows
    /\ UNCHANGED <<form, est, screen, now, cfg, email, demo, busy, gLoaded, store, ops,
                   issued, alert, demoAdded>>

\* LogActionScreen.submit: the row of the form
SubmitRow(f) ==
    <<f.timestamp, f.userEmail, f.categoria, f.acao, Or(Number(f.quantidade), JSNum(0)),
      f.unidade, f.fator_emissao, LogActionPreview(f).result, f.notas>>

\* Forms the user fills in before submitting
FilledForms ==
    LET f == InitialForm(IF email # "" THEN email ELSE IF demo THEN "demo@empresa.com" ELSE "",
                         ToISOString(now))
    IN  {[f EXCEPT !.acao = JSStr("luzes"), !.quantidade = JSStr("2")],
         [f EXCEPT !.categoria = JSStr("Transporte"), !.unidade = JSStr("km"),
                   !.quantidade = JSStr("1.25"), !.fator_emissao = JSStr("0.2")]}

\* An addRow that also sends the row to the sheet in demo mode
AddRowDemoCallsStore(f) ==
    /\ screen = "log" /\ ~effect /\ alert = ""
    /\ demo
    /\ Len(demoAdded) < MaxDemoAdds
    /\ rows' = Append(rows, SubmitRow(f))
    /\ demoAdded' = Append(demoAdded, SubmitRow(f))
    /\ alert' = "saved-demo"
    /\ ops' = ops \cup {Op(issued, "append", cfg.spreadsheetId, SubmitRow(f))}
    /\ issued' = issued + 1
    /\ UNCHANGED <<form, est, screen, now, cfg, email, demo, busy, gLoaded, effect, store>>

\* addRow in demo mode
AddRowDemo(f) ==
    /\ screen = "log" /\ ~effect /\ alert = ""
    /\ demo
    /\ Len(demoAdded) < MaxDemoAdds
    /\ rows' = Append(rows, SubmitRow(f))
    /\ demoAdded' = Append(demoAdded, SubmitRow(f))
    /\ alert' = "saved-demo"
    /\ UNCHANGED <<form, est, screen, now, cfg, email, demo, busy, gLoaded, effect, store,
                   ops, issued>>

\* addRow with no spreadsheet ID
AddRowNoSheet(f) ==
    /\ screen = "log" /\ ~effect /\ alert = ""
    /\ ~demo
    /\ cfg.spreadsheetId = ""
    /\ alert' = "configure-id"
    /\ UNCHANGED <<form, est, screen, rows, now, cfg, email, demo, busy, gLoaded, effect,
                   store, ops, issued, demoAdded>>

\* An addRow that puts the row in the list before the sheet has answered
AddRowOptimistic(f) ==
    /\ screen = "log" /\ ~effect /\ alert = ""
    /\ ~demo
    /\ cfg.spreadsheetId # ""
    /\ issued < MaxOps
    /\ rows' = Append(rows, SubmitRow(f))
    /\ ops' = ops \cup {Op(issued, "append", cfg.spreadsheetId, SubmitRow(f))}
    /\ issued' = issued + 1
    /\ UNCHANGED <<form, est, screen, now, cfg, email, demo, busy, gLoaded, effect,
                   store, alert, demoAdded>>

\* addRow up to its await of sheetsAppend
AddRow(f) ==
    /\ screen = "log" /\ ~effect /\ alert = ""
    /\ ~demo
    /\ cfg.spreadsheetId # ""
    /\ issued < MaxOps
    /\ ops' = ops \cup {Op(issued, "append", cfg.spreadsheetId, SubmitRow(f))}
    /\ issued' = issued + 1
    /\ UNCHANGED <<form, est, screen, rows, now, cfg, email, demo, busy, gLoaded, effect,
                   store, alert, demoAdded>>

\* addRow after its await: setRows(prev => [...prev, row]), or the alert of the catch
AddRowDone(o) ==
    /\ o \in ops /\ o.kind = "append" /\ o.stage = "back"
    /\ ~effect /\ alert = ""
    /\ ops' = ops \ {o}
    /\ IF o.ok
       THEN rows' = Append(rows, o.row) /\ alert' = "saved"
       ELSE alert' = "save-error" /\ UNCHANGED rows
    /\ UNCHANGED <<form, est, screen, now, cfg, email, demo, busy, gLoaded, effect, store,
                   issued, demoAdded>>

\* syncSheet in demo mode
SyncSheetDemo ==
    /\ screen = "settings" /\ ~effect /\ alert = ""
    /\ demo
    /\ alert' = "demo-is-local"
    /\ UNCHANGED <<form, est, screen, rows, now, cfg, email, demo, busy, gLoaded, effect,
                   store, ops, issued, demoAdded>>

\* syncSheet with no spreadsheet ID
SyncSheetNoSheet ==
    /\ screen = "settings" /\ ~effect /\ alert = ""
    /\ ~demo
    /\ cfg.spreadsheetId = ""
    /\ alert' = "enter-id"
    /\ UNCHANGED <<form, est, screen, rows, now, cfg, email, demo, busy, gLoaded, effect,
                   store, ops, issued, demoAdded>>

\* syncSheet up to its await of sheetsReadAll
SyncSheet ==
    /\ screen = "settings" /\ ~effect /\ alert = ""
    /\ ~demo
    /\ cfg.spreadsheetId # ""
    /\ issued < MaxOps
    /\ ops' = ops \cup {Op(issued, "sync", cfg.spreadsheetId, <<>>)}
    /\ issued' = issued + 1
    /\ UNCHANGED <<form, est, screen, rows, now, cfg, email, demo, busy, gLoaded, effect,
                   store, alert, demoAdded>>

\* syncSheet after its await: setRows(headerless), or the alert of the catch
SyncSheetDone(o) ==
    /\ o \in ops /\ o.kind = "sync" /\ o.stage = "back"
    /\ ~effect /\ alert = ""
    /\ ops' = ops \ {o}
    /\ LET h == headerless(o.values) IN
       IF o.ok /\ ~h.threw
       THEN rows' = h.rows /\ alert' = "synced"
       ELSE alert' = "sync-failed" /\ UNCHANGED rows
    /\ UNCHANGED <<form, est, screen, now, cfg, email, demo, busy, gLoaded, effect, store,
                   issued, demoAdded>>

\* The service answers a read with the records of the sheet
ServiceReads(o) ==
    /\ o \in ops /\ o.kind \in {"connect", "sync"} /\ o.stage = "sent"
    /\ ops' = (ops \ {o}) \cup {[o EXCEPT !.stage = "back", !.values = sheetsReadAll(store)]}
    /\ UNCHANGED <<form, est, screen, rows, now, cfg, email, demo, busy, gLoaded, effect,
                   store, issued, alert, demoAdded>>

\* The service appends the rows of an append call
ServiceAppends(o) ==
    /\ o \in ops /\ o.kind = "append" /\ o.stage = "sent"
    /\ store' = sheetsAppend(store, <<o.row>>)
    /\ ops' = (ops \ {o}) \cup {[o EXCEPT !.stage = "back"]}
    /\ UNCHANGED <<form, est, screen, rows, now, cfg, email, demo, busy, gLoaded, effect,
                   issued, alert, demoAdded>>

\* A call fails (no network, no permission, no such sheet): the sheet is untouched
ServiceFails(o) ==
    /\ o \in ops /\ o.kind \in {"connect", "sync", "append"} /\ o.stage = "sent"
    /\ ops' = (ops \ {o}) \cup {[o EXCEPT !.stage = "back", !.ok = FALSE]}
    /\ UNCHANGED <<form, est, screen, rows, now, cfg, email, demo, busy, gLoaded, effect,
                   store, issued, alert, demoAdded>>

Next ==
    \/ GapiLoaded
    \/ Dismiss
    \/ \E v \in ClientIds : SetCfg("clientId", v)
    \/ \E v \in SpreadsheetIds : SetCfg("spreadsheetId", v)
    \/ TryConnectNotLoaded
    \/ TryConnect
    \/ \E o \in ops : SignInFails(o)
    \/ \E o \in ops : SignInDone(o)
    \/ \E o \in ops : ConnectReadDone(o)
    \/ OnDemo
    \/ \E run \in RandomRuns : SeedEffect(run)
    \/ \E id \in NavItems : Nav(id)
    \/ \E f \in FilledForms : AddRowDemo(f)
    \/ \E f \in FilledForms : AddRowNoSheet(f)
    \/ \E f \in FilledForms : AddRow(f)
    \/ \E o \in ops : AddRowDone(o)
    \/ SyncSheetDemo
    \/ SyncSheetNoSheet
    \/ SyncSheet
    \/ \E o \in ops : SyncSheetDone(o)
    \/ \E o \in ops : ServiceReads(o)
    \/ \E o \in ops : ServiceAppends(o)
    \/ \E o \in ops : ServiceFails(o)

\* The state after construction: useState's initial values, the sheet as its
\* owner left it
Init ==
    /\ form = InitialForm("", "2024-03-12T00:00:00.000Z")
    /\ est = NoCall
    /\ screen = "connect"
    /\ rows = <<>>
    /\ now = ClockStart
    /\ cfg = [clientId |-> "", spreadsheetId |-> ""]
    /\ email = ""
    /\ demo = FALSE
    /\ busy = FALSE
    /\ gLoaded = FALSE
    /\ effect = FALSE
    /\ store \in InitialStores
    /\ ops = {}
    /\ issued = 0
    /\ alert = ""
    /\ demoAdded = <<>>

Spec == Init /\ [][Next]_vars

\* The form of LogActionScreen and the estimator, on an empty sheet
InitEst == Init /\ store = <<>>

NextEst ==
    \/ \E i \in 1..Len(Categorias) : SetCategoria(Categorias[i])
    \/ \E txt \in QuantidadeTexts : SetQuantidade(txt)
    \/ \E txt \in FatorTexts : SetFatorEmissao(txt)
    \/ \E c \in CategoriaInputs, q \in QuantidadeInputs, f \in FatorInputs : Estimate(c, q, f)

SpecEst == InitEst /\ [][NextEst]_vars

\* The screens over a row list: the state after onConnect on an empty sheet
InitAgg ==
    /\ form = InitialForm("", "2024-03-12T00:00:00.000Z")
    /\ est = NoCall
    /\ screen = "home"
    /\ rows = <<>>
    /\ now = ClockStart
    /\ cfg = [clientId |-> "cid", spreadsheetId |-> "sheet"]
    /\ email = "ana@x"
    /\ demo = FALSE
    /\ busy = FALSE
    /\ gLoaded = TRUE
    /\ effect = FALSE
    /\ store = <<>>
    /\ ops = {}
    /\ issued = 1
    /\ alert = ""
    /\ demoAdded = <<>>

NextAgg ==
    \/ \E id \in NavItems : Nav(id)
    \/ \E r \in RawRows : RowArrives(r)

SpecAgg == InitAgg /\ [][NextAgg]_vars

\* The values of Math.random() at the edges of what Math.round(1 + r * 20)
\* gives: 0.024|0.025 is 1|2, 0.974|0.975 is 20|21
SeedRuns ==
    {[k \in 1..SeedCount |-> (k * m + c) % Milli] : m \in {0, 25, 137}, c \in {0, 24, 974, 975, 999}}

\* seedDemoRows when it runs: the state after onDemo, the effect on the demo
\* flag due
InitSeed ==
    /\ form = InitialForm("", "2024-03-12T00:00:00.000Z")
    /\ est = NoCall
    /\ screen = "home"
    /\ rows = <<>>
    /\ now \in Clock
    /\ cfg = [clientId |-> "", spreadsheetId |-> ""]
    /\ email = ""
    /\ demo = TRUE
    /\ busy = FALSE
    /\ gLoaded \in BOOLEAN
    /\ effect = TRUE
    /\ store = <<>>
    /\ ops = {}
    /\ issued = 0
    /\ alert = ""
    /\ demoAdded = <<>>

NextSeed ==
    \/ \E run \in SeedRuns : SeedEffect(run)
    \/ \E id \in NavItems : Nav(id)

SpecSeed == InitSeed /\ [][NextSeed]_vars

\* Connected mode with the sheet loaded: the state after onConnect has read
\* the sheet, the calls counted from there, the service answering every call
InitSync ==
    /\ form = InitialForm("", "2024-03-12T00:00:00.000Z")
    /\ est = NoCall
    /\ screen = "home"
    /\ store \in InitialStores
    /\ rows = headerless(sheetsReadAll(store)).rows
    /\ now = ClockStart
    /\ cfg = [clientId |-> "cid", spreadsheetId |-> "sheet"]
    /\ email = "ana@x"
    /\ demo = FALSE
    /\ busy = FALSE
    /\ gLoaded = TRUE
    /\ effect = FALSE
    /\ ops = {}
    /\ issued = 0
    /\ alert = ""
    /\ demoAdded = <<>>

NextSync ==
    \/ Dismiss
    \/ \E id \in NavItems : Nav(id)
    \/ \E f \in FilledForms : AddRow(f)
    \/ \E o \in ops : AddRowDone(o)
    \/ SyncSheet
    \/ \E o \in ops : SyncSheetDone(o)
    \/ \E o \in ops : ServiceReads(o)
    \/ \E o \in ops : ServiceAppends(o)

SpecSync == InitSync /\ [][NextSync]_vars

(***************************************************************************)
(* Properties                                                              *)
(***************************************************************************)
\* The sum of f over the indices S
RECURSIVE SumOver(_, _)
SumOver(f, S) ==
    IF S = {} THEN 0
    ELSE LET i == CHOOSE j \in S : TRUE IN f[i] + SumOver(f, S \ {i})

\* The fixed table of default factors, in thousandths
FactorTable ==
    [c \in {"Energia", "Residuos", "Transporte", "Social", "Governanca"} |->
        CASE c = "Energia" -> 50 [] c = "Residuos" -> 1900 [] c = "Transporte" -> 120
          [] OTHER -> 0]

\* The factor a call is to use: the override when one is defined, else the
\* category's default, else 0
ExpectedFactor(c, f) ==
    IF f.t = "num" THEN f.n
    ELSE IF c.t = "str" /\ c.s \in DOMAIN FactorTable THEN FactorTable[c.s]
    ELSE 0

\* r (thousandths) is q*f (millionths) rounded to 3 decimals
RoundedTo3(r, micro) == 2 * Abs(r * Milli - micro) <= Milli

EstimateIsRoundedProduct ==
    LET q == Number(est.quantidade)
        qn == IF q.t = "num" THEN q.n ELSE 0
    IN  /\ est.result.t = "num"
        /\ RoundedTo3(est.result.n, qn * ExpectedFactor(est.categoria, est.fatorCustom))

\* C1: for every category, known or not, every quantity and every optional
\* override f, computeEmissionKg returns quantity x factor rounded to 3 decimals,
\* the factor being f when defined, else the category's default, else 0.
C1_EstimateContract ==
    (est.by # "none" /\ est.fatorCustom.t \in {"undefined", "num"})
        => EstimateIsRoundedProduct

\* The same for the categories that name no property inherited from
\* Object.prototype: the part of C1 the code keeps
EstimateContractOwnKeys ==
    (/\ est.by # "none"
     /\ est.fatorCustom.t \in {"undefined", "num"}
     /\ PropertyKey(est.categoria) \notin ObjectPrototypeKeys)
        => EstimateIsRoundedProduct

\* C2: computeEmissionKg returns a finite number for every input the
\* application passes to it, the form's factor text converted with Number(...)
\* included.
C2_FormEstimateFinite ==
    est.by = "form" => est.result.t = "num"

(***************************************************************************)
(* Properties of the screens' aggregates                                   *)
(***************************************************************************)
\* The emission of each parsed row, in thousandths
KgOf(parsed) == [i \in 1..Len(parsed) |-> parsed[i].emissao_kg.n]

\* The distinct values of a field over the parsed rows
KeysPresent(parsed, field) == {parsed[i][field] : i \in 1..Len(parsed)}

\* C3: the per-category aggregation has exactly one entry per distinct
\* category of the input, and its entries' totals add up to the total
\* emissions, the sum of emissionKg over all rows (0 for no rows).
C3_ByCategoryPartitionsTotal ==
    screen = "home" =>
        LET dash == DashboardScreen(rows, now)
            out == dash.byCat
            cats == KeysPresent(dash.parsed, "categoria")
            sum == SumOver(KgOf(dash.parsed), 1..Len(rows))
        IN  /\ \A c \in cats :
                 Cardinality({j \in 1..Len(out) : out[j].categoria = c}) = 1
            /\ \A j \in 1..Len(out) : out[j].categoria \in cats
            /\ dash.total = JSNum(sum)
            /\ SumOver([j \in 1..Len(out) |-> out[j].emissao.n], 1..Len(out)) = sum

\* A dashboard over three rows of two categories, one of them repeated
C3_Witness ==
    /\ screen = "home"
    /\ Len(rows) = 3
    /\ LET dash == DashboardScreen(rows, now)
       IN  Len(dash.byCat) = 2 /\ dash.total.n # 0 /\ dash.byCat[1].emissao.n # 0

\* The rows whose timestamp t satisfies from <= t <= to
RowsBetween(from, to) ==
    {i \in 1..Len(rows) :
        LET date == NewDate(Cell(rows[i], 0))
        IN  date.valid /\ from <= date.time /\ date.time <= to}

\* The latest instant of the model's dates
EndOfTime == DateParse("2037-12-31").time

\* C4: the last-7-days value is the sum of emissionKg over exactly the rows
\* whose timestamp lies in [now - window, now]; an older or a later row
\* contributes nothing.
C4_WindowedEmissions ==
    screen = "home" =>
        LET dash == DashboardScreen(rows, now)
        IN  dash.last7 = JSNum(SumOver(KgOf(dash.parsed), RowsBetween(now - WindowSeconds, now)))

\* What the code keeps of C4: only the lower end of the window is applied
WindowedEmissionsLowerBound ==
    screen = "home" =>
        LET dash == DashboardScreen(rows, now)
        IN  dash.last7 = JSNum(SumOver(KgOf(dash.parsed), RowsBetween(now - WindowSeconds, EndOfTime)))

\* C5: when the grand total of emissionKg is 0, positive and negative values
\* cancelling included, every entry's percentOfTotal is 0.
C5_ZeroTotalZeroPercent ==
    screen = "insights" =>
        LET ins == InsightsScreen(rows)
        IN  SumOver(KgOf(ins.parsed), 1..Len(rows)) = 0 =>
                \A j \in 1..Len(ins.byCat) : ins.byCat[j].pct = JSNum(0)

\* The first index of key k in a sequence of keys
FirstSeen(keys, k) == CHOOSE i \in 1..Len(keys) : keys[i] = k /\ \A j \in 1..(i - 1) : keys[j] # k

\* outKeys lists every key of inKeys, in first-seen order
InFirstSeenOrder(outKeys, inKeys) ==
    /\ {outKeys[j] : j \in 1..Len(outKeys)} = {inKeys[i] : i \in 1..Len(inKeys)}
    /\ \A i, j \in 1..Len(outKeys) :
         i < j <=> FirstSeen(inKeys, outKeys[i]) < FirstSeen(inKeys, outKeys[j])

\* C6: byCategory and byMonth list their entries in first-seen order of the
\* keys in the input (byMonth is not sorted chronologically).
C6_FirstSeenOrder ==
    /\ screen = "home" =>
         LET dash == DashboardScreen(rows, now)
         IN  InFirstSeenOrder([j \in 1..Len(dash.byCat) |-> dash.byCat[j].categoria],
                              [i \in 1..Len(rows) |-> dash.parsed[i].categoria])
    /\ screen = "insights" =>
         LET ins == InsightsScreen(rows)
         IN  /\ InFirstSeenOrder([j \in 1..Len(ins.byMonth) |-> ins.byMonth[j].month],
                                 [i \in 1..Len(rows) |-> MonthKey(ins.parsed[i].date)])
             /\ InFirstSeenOrder([j \in 1..Len(ins.byCat) |-> ins.byCat[j].categoria],
                                 [i \in 1..Len(rows) |-> ins.parsed[i].categoria])

\* Insights over rows of March, February, March: the later month is listed first
C6_Witness ==
    /\ screen = "insights"
    /\ Len(rows) = 3
    /\ LET ins == InsightsScreen(rows)
       IN  /\ Len(ins.byMonth) = 2
           /\ ins.byMonth[1].month = "2024-03"
           /\ ins.byMonth[2].month = "2024-02"
           /\ MonthKey(ins.parsed[3].date) = "2024-03"

\* C7: the leaderboard has one entry per distinct userEmail, with the sum of
\* that user's emissionKg; it is in non-increasing order of total, and users
\* with equal totals keep the order in which their emails first occur.
C7_Leaderboard ==
    screen = "challenges" =>
        LET ch == ChallengesScreen(rows)
            out == ch.byUser
            kg == KgOf(ch.parsed)
            emails == [i \in 1..Len(rows) |-> ch.parsed[i].email]
        IN  /\ {out[j].email : j \in 1..Len(out)} = {emails[i] : i \in 1..Len(rows)}
            /\ Len(out) = Cardinality({emails[i] : i \in 1..Len(rows)})
            /\ \A j \in 1..Len(out) :
                 out[j].total = JSNum(SumOver(kg, {i \in 1..Len(rows) : emails[i] = out[j].email}))
            /\ \A i, j \in 1..Len(out) : i < j => out[i].total.n >= out[j].total.n
            /\ \A i, j \in 1..Len(out) :
                 (i < j /\ out[i].total = out[j].total)
                     => FirstSeen(emails, out[i].email) < FirstSeen(emails, out[j].email)

\* A leaderboard of three users, two of them tied, that the sort reordered
C7_Witness ==
    /\ screen = "challenges"
    /\ LET ch == ChallengesScreen(rows)
       IN  /\ Len(ch.byUser) = 3
           /\ ch.byUser[2].total = ch.byUser[3].total
           /\ ch.byUser[1].email # ch.parsed[1].email

IsNumber(v) == v.t = "num"
IsText(v) == v.t = "str"

\* C8: parsing a raw row degrades every malformed cell: quantity and
\* emissionKg are numbers, emissionFactor is a well-formed number or absent,
\* and a missing non-numeric field is the empty string.
C8_ParseDegrades ==
    screen = "home" =>
        \A i \in 1..Len(rows) :
            LET x == DashboardParsed(rows[i]) IN
            /\ IsNumber(x.quantidade)
            /\ IsNumber(x.emissao_kg)
            /\ (x.fator = JSUndef \/ IsNumber(x.fator))
            /\ \A fld \in {"timestamp", "userEmail", "categoria", "acao", "unidade", "notas"} :
                 IsText(x[fld])

\* What the code keeps of C8: the two numeric cells default to 0 and the notes
\* to the empty string
ParseDefaults ==
    screen = "home" =>
        \A i \in 1..Len(rows) :
            LET x == DashboardParsed(rows[i]) IN
            IsNumber(x.quantidade) /\ IsNumber(x.emissao_kg) /\ IsText(x.notas)

\* The same letter, whatever its case
SameLetter(a, b) ==
    \/ a = b
    \/ \E i \in 1..Len(UpperCase) : {a, b} = {Char(UpperCase, i), Char(LowerCase, i)}

\* txt contains word, the case of the letters ignored
ContainsIgnoringCase(txt, word) ==
    \E i \in 1..(Len(txt) - Len(word) + 1) :
        \A j \in 1..Len(word) : SameLetter(Char(txt, i + j - 1), Char(word, j))

\* The first record is a header: its first cell is a text containing "timestamp"
HasHeader(records) ==
    /\ Len(records) > 0
    /\ Len(records[1]) > 0
    /\ records[1][1].t = "str"
    /\ ContainsIgnoringCase(records[1][1].s, "timestamp")

\* C9: when a read of the store comes back to onConnect or to syncSheet, the
\* row list becomes the records the store returned, in store order, without
\* the first record if and only if its first cell contains "timestamp" in any
\* case; nothing else is dropped or reordered, and an empty store gives an
\* empty list and no failure alert.
C9_LoadStripsHeaderOnly ==
    [][\A o \in ops :
          (o.kind \in {"connect", "sync"} /\ o.stage = "back" /\ o.ok /\ o \notin ops')
          => /\ rows' = (IF HasHeader(o.values) THEN Tail(o.values) ELSE o.values)
             /\ alert' \notin {"read-failed", "sync-failed"}]_vars

\* A sync has loaded a sheet whose header cell is "Data (Timestamp)": the
\* header is gone and the records under it are the row list
C9_Witness ==
    /\ alert = "synced"
    /\ Len(store) > 1
    /\ store[1] = TitledHeaderRow
    /\ rows = Tail(store)

\* seq is sub with further elements before, between or after its elements
RECURSIVE IsSubsequence(_, _)
IsSubsequence(sub, seq) ==
    IF Len(sub) = 0 THEN TRUE
    ELSE IF Len(seq) = 0 THEN FALSE
    ELSE IF Head(sub) = Head(seq) THEN IsSubsequence(Tail(sub), Tail(seq))
    ELSE IsSubsequence(sub, Tail(seq))

\* C10: rows are append-only. Every row addRow appended to the local demo
\* state is still in the row list, unchanged and in the order of the appends,
\* whatever onDemo, the seeding, onConnect, addRow and syncSheet did since.
C10_AppendOnly == IsSubsequence(demoAdded, rows)

\* The store's half of append-only: a step leaves the records of the store
\* where they were and as they were, and at most adds records after them
StoreAppendOnly ==
    [][Len(store') >= Len(store) /\ SubSeq(store', 1, Len(store)) = store]_vars


\* C11: demo mode needs no external service. In a step that starts and ends
\* with the demo flag set, the sheet is untouched and no read or append call
\* is started or in flight; addRow only puts its row at the end of the row
\* list, syncSheet leaves the row list as it is; and once the effect on the
\* demo flag has run, the row list holds the locally seeded dataset.
C11_DemoIsLocal ==
    [][(demo /\ demo')
       => /\ store' = store
          /\ issued' = issued
          /\ \A o \in ops' : o.kind \notin {"connect", "sync", "append"}
          /\ (alert' = "saved-demo" /\ alert = "")
                => (\E f \in FilledForms : rows' = Append(rows, SubmitRow(f)))
          /\ (alert' = "demo-is-local" /\ alert = "") => rows' = rows
          /\ ~effect' => Len(rows') >= SeedCount
          /\ (effect /\ ~effect')
                => (\E run \in RandomRuns : rows' = seedDemoRows(now, run))]_vars

\* addRow has acted in demo mode: the seeded rows and the added row after them
C11_Witness ==
    /\ demo
    /\ alert = "saved-demo"
    /\ Len(demoAdded) = 1
    /\ Len(rows) = SeedCount + 1
    /\ rows[SeedCount + 1] = demoAdded[1]
    /\ ops = {}


\* The seeded rows are on the screen: the effect has run and nothing was added
Seeded == demo /\ ~effect /\ Len(rows) = SeedCount

\* C12: whatever Math.random() gives, every row of seedDemoRows has a whole
\* quantity q with 1 <= q <= 20.
C12_SeedQuantityRange ==
    Seeded => \A k \in 1..SeedCount :
                 LET q == rows[k][5]
                 IN  q.t = "num" /\ q.n % Milli = 0 /\ 1 * Milli <= q.n /\ q.n <= 20 * Milli

\* What the code keeps: a whole quantity from 1 to 21
SeedQuantityUpTo21 ==
    Seeded => \A k \in 1..SeedCount :
                 LET q == rows[k][5]
                 IN  q.t = "num" /\ q.n % Milli = 0 /\ 1 * Milli <= q.n /\ q.n <= 21 * Milli


\* The override of the row of index i: none, 0.09, 0.12, 0.05 in turn
ExpectedOverride(i) == <<JSUndef, JSNum(90), JSNum(120), JSNum(50)>>[(i % 4) + 1]

\* The rows are the rows a generation at instant t gives
GeneratedAt(t) ==
    \A i \in 0..(SeedCount - 1) :
        LET r == rows[i + 1]
            override == ExpectedOverride(i)
        IN  /\ Len(r) = 9
            /\ r[1].t = "str"
            /\ DateParse(r[1].s).time = t - i * 36 * 3600
            /\ r[3] = JSStr(Categorias[(i % 5) + 1])
            /\ r[7] = (IF override = JSUndef THEN JSStr("") ELSE override)
            /\ r[8] = computeEmissionKg(r[3], r[5], override)

\* C13: seedDemoRows returns exactly 40 rows; the row of index i has the
\* timestamp of the generation instant less i times 36 hours, the category
\* i mod 5 of the five, the override i mod 4 of (none, 0.09, 0.12, 0.05) and
\* the emission computeEmissionKg gives for them; the total of the emissions
\* is a number and is not negative.
C13_SeedShape ==
    (demo /\ ~effect)
    => /\ Len(rows) = SeedCount
       /\ \E t \in Clock : t <= now /\ GeneratedAt(t)
       /\ LET parsed == [k \in 1..Len(rows) |-> DashboardParsed(rows[k])]
              total == SumEmissao(parsed)
          IN  total.t = "num" /\ total.n >= 0

\* A generation with draws that differ from row to row, seen after the clock
\* has moved on
C13_Witness ==
    /\ Seeded
    /\ rows[1][5] # rows[2][5]
    /\ rows[2][7] = JSNum(90)
    /\ now # DateParse(rows[1][1].s).time


\* C14: in connected mode addRow changes the row list only once the append
\* has succeeded.  With no spreadsheet ID its step reports the failure and
\* leaves list, sheet and calls as they are; the step that sends the append
\* and the step in which the service rejects it leave list and sheet as they
\* are; the step that delivers a failure reports it and leaves list and sheet
\* as they are; the step that delivers a success puts exactly the submitted
\* row, by then a record of the sheet, at the end of the list.
C14_AddRowAfterAppend ==
    [][~demo
       => /\ (alert = "" /\ alert' = "configure-id")
                => (rows' = rows /\ store' = store /\ ops' = ops)
          /\ \A o \in ops' \ ops :
                (o.kind = "append" /\ o.stage = "sent") => (rows' = rows /\ store' = store)
          /\ \A o \in ops' \ ops :
                (o.kind = "append" /\ o.stage = "back" /\ ~o.ok)
                   => (rows' = rows /\ store' = store)
          /\ \A o \in ops \ ops' :
                (o.kind = "append" /\ o.stage = "back")
                   => IF o.ok
                      THEN /\ rows' = Append(rows, o.row)
                           /\ \E i \in 1..Len(store) : store[i] = o.row
                           /\ store' = store
                      ELSE /\ rows' = rows
                           /\ store' = store
                           /\ alert' = "save-error"]_vars

\* An append has succeeded and addRow has put the row at the end of a list
\* that was loaded from the sheet
C14_Witness ==
    /\ ~demo
    /\ alert = "saved"
    /\ ops = {}
    /\ Len(rows) > 1
    /\ rows[Len(rows)] = store[Len(store)]
    /\ rows[Len(rows)] \in {SubmitRow(f) : f \in FilledForms}


\* How many times the record x is in the sequence
Times_In(x, seq) == Cardinality({i \in 1..Len(seq) : seq[i] = x})

\* The same records, each as many times, whatever the order
SameRecords(a, b) ==
    \A x \in {a[i] : i \in 1..Len(a)} \cup {b[i] : i \in 1..Len(b)} :
        Times_In(x, a) = Times_In(x, b)

\* The records of the sheet under its header, if it has one
UnderHeader(sheet) == IF HasHeader(sheet) THEN Tail(sheet) ELSE sheet

\* C15: in connected mode, the application the only writer of the sheet, once
\* syncSheet and the addRow calls that overlap it have all completed with
\* success (no call is in flight), the row list holds the records of the
\* sheet under its header: each of them once, none twice, none missing.
C15_ListMatchesSheet ==
    ops = {} => SameRecords(rows, UnderHeader(store))

\* What holds whatever the interleaving: a row of the list that came from
\* the sheet or went to it is a record of the sheet
ListRowsAreSheetRecords ==
    \A i \in 1..Len(rows) : \E j \in 1..Len(store) : store[j] = rows[i]


====
